---- MODULE Spec2Model ----
(***************************************************************************)
(* Model of the gradient-descent optimizers of 01-main/support.py:         *)
(* GDTemplate, PlainGD, MomentumGD, Adagrad, RMSprop and ADAM.             *)
(*                                                                         *)
(* One optimizer instance is constructed (Init) and then driven through    *)
(* update_change and reset calls.  `self` holds exactly the attributes the *)
(* constructor of the class sets.  Numbers are exact rationals n/d; the    *)
(* only rounded operation is the square root, which is rounded down to     *)
(* 1/SqrtPrec.  Arrays are sequences; a Python float is a one element      *)
(* array, which numpy broadcasts against every shape.                      *)
(***************************************************************************)
EXTENDS Integers, Sequences, FiniteSets, TLC

VARIABLES cls, self, op, gradient, theta_m1, ret, calls

vars == <<cls, self, op, gradient, theta_m1, ret, calls>>

(***************************************************************************)
(* Bounds of the exploration.                                              *)
(***************************************************************************)
MaxCalls == 3
MaxDim == 3
MaxLp == 3

(***************************************************************************)
(* Exact rational arithmetic.                                              *)
(***************************************************************************)
Abs(x) == IF x < 0 THEN -x ELSE x

RECURSIVE Gcd(_, _)
Gcd(a, b) == IF b = 0 THEN a ELSE Gcd(b, a % b)

Rat(n, d) ==
    LET g == Gcd(Abs(n), Abs(d))
        sg == IF d < 0 THEN -1 ELSE 1
    IN  [n |-> sg * (n \div g), d |-> sg * (d \div g)]

RZero == [n |-> 0, d |-> 1]
ROne == [n |-> 1, d |-> 1]

RNeg(a) == [n |-> -a.n, d |-> a.d]

RAdd(a, b) ==
    LET g == Gcd(a.d, b.d)
    IN  Rat(a.n * (b.d \div g) + b.n * (a.d \div g), (a.d \div g) * b.d)

RSub(a, b) == RAdd(a, RNeg(b))

RMul(a, b) ==
    LET g1 == Gcd(Abs(a.n), b.d)
        g2 == Gcd(Abs(b.n), a.d)
    IN  IF a.n = 0 \/ b.n = 0 THEN RZero
        ELSE [n |-> (a.n \div g1) * (b.n \div g2), d |-> (a.d \div g2) * (b.d \div g1)]

RInv(a) == IF a.n < 0 THEN [n |-> -a.d, d |-> -a.n] ELSE [n |-> a.d, d |-> a.n]

RDiv(a, b) == RMul(a, RInv(b))

RSignum(a) == IF a.n > 0 THEN ROne ELSE IF a.n < 0 THEN RNeg(ROne) ELSE RZero

RECURSIVE RPow(_, _)
RPow(a, k) == IF k = 0 THEN ROne ELSE RMul(a, RPow(a, k - 1))

\* n1/d1 < n2/d2 for non-negative fractions, by continued fractions
\* (no cross multiplication, so no intermediate product grows).
RECURSIVE LessPos(_, _, _, _)
LessPos(n1, d1, n2, d2) ==
    LET q1 == n1 \div d1
        q2 == n2 \div d2
        r1 == n1 % d1
        r2 == n2 % d2
    IN  IF q1 # q2 THEN q1 < q2
        ELSE IF r2 = 0 THEN FALSE
        ELSE IF r1 = 0 THEN TRUE
        ELSE LessPos(d2, r2, d1, r1)

RLess(a, b) ==
    IF a.n < 0 /\ b.n >= 0 THEN TRUE
    ELSE IF a.n >= 0 /\ b.n < 0 THEN FALSE
    ELSE IF a.n >= 0 THEN LessPos(a.n, a.d, b.n, b.d)
    ELSE LessPos(-b.n, b.d, -a.n, a.d)

RLeq(a, b) == ~RLess(b, a)

\* Square root rounded down to a multiple of 1/SqrtPrec: the largest k/SqrtPrec
\* whose square is at most x, that is the integer square root of
\* floor(x * SqrtPrec^2).
SqrtPrec == 100 * 100

RECURSIVE SqrtSearch(_, _, _)
SqrtSearch(f, lo, hi) ==
    IF hi - lo <= 1 THEN lo
    ELSE LET mid == (lo + hi) \div 2
         IN  IF mid * mid <= f THEN SqrtSearch(f, mid, hi) ELSE SqrtSearch(f, lo, mid)

RECURSIVE SqrtTop(_, _)
SqrtTop(f, hi) == IF hi * hi > f THEN hi ELSE SqrtTop(f, 2 * hi)

RSqrt(x) ==
    LET g == Gcd(SqrtPrec * SqrtPrec, x.d)
        f == (x.n * ((SqrtPrec * SqrtPrec) \div g)) \div (x.d \div g)
    IN  Rat(SqrtSearch(f, 0, SqrtTop(f, 1)), SqrtPrec)

(***************************************************************************)
(* Python values: None, arrays of numbers, and the exception a failing     *)
(* expression raises.                                                      *)
(***************************************************************************)
None == [tag |-> "None", v |-> <<>>]
Arr(seq) == [tag |-> "array", v |-> seq]
Num(x) == Arr(<<x>>)
Raise(name) == [tag |-> name, v |-> <<>>]

Exceptions == {"NotImplementedError", "ValueError", "TypeError"}
IsArr(x) == x.tag = "array"
IsExc(x) == x.tag \in Exceptions
Shape(x) == Len(x.v)

\* numpy broadcasting of a binary ufunc over two operands: an exception in an
\* operand propagates (left operand first), None is a TypeError, shapes must be
\* equal or one of them of size 1, else ValueError.
At(x, i) == IF Len(x.v) = 1 THEN x.v[1] ELSE x.v[i]

Binary(f, x, y) ==
    IF f = "+" THEN RAdd(x, y)
    ELSE IF f = "-" THEN RSub(x, y)
    ELSE IF f = "*" THEN RMul(x, y)
    ELSE RDiv(x, y)

BroadcastValues(f, a, b) ==
    IF IsExc(a) THEN a
    ELSE IF IsExc(b) THEN b
    ELSE IF ~IsArr(a) \/ ~IsArr(b) THEN Raise("TypeError")
    ELSE IF Shape(a) # Shape(b) /\ Shape(a) # 1 /\ Shape(b) # 1 THEN Raise("ValueError")
    ELSE LET m == IF Shape(a) >= Shape(b) THEN Shape(a) ELSE Shape(b)
         IN  Arr([i \in 1..m |-> Binary(f, At(a, i), At(b, i))])

\* the operands are evaluated once, left to right, before the ufunc is applied
Broadcast(f, a, b) ==
    LET x == a
        y == b
    IN  BroadcastValues(f, x, y)

Unary(f, x, k) ==
    IF f = "sign" THEN RSignum(x)
    ELSE IF f = "sqrt" THEN RSqrt(x)
    ELSE RPow(x, k)

MapValues(f, a, k) ==
    IF IsExc(a) THEN a
    ELSE IF ~IsArr(a) THEN Raise("TypeError")
    ELSE Arr([i \in 1..Shape(a) |-> Unary(f, a.v[i], k)])

Map(f, a, k) == LET x == a IN MapValues(f, x, k)

Add(a, b) == Broadcast("+", a, b)
Sub(a, b) == Broadcast("-", a, b)
Mul(a, b) == Broadcast("*", a, b)
Div(a, b) == Broadcast("/", a, b)
sign(a) == Map("sign", a, 1)
sqrt(a) == Map("sqrt", a, 1)
Pow(a, k) == Map("**", a, k)

(***************************************************************************)
(* Inputs of the calls and of the constructors.                            *)
(***************************************************************************)
Q(n, d) == Num(Rat(n, d))

\* One array per shape 2..MaxDim, with entries of both signs.
GradVec(n) == Arr([i \in 1..n |-> IF i % 2 = 1 THEN ROne ELSE RNeg(ROne)])
ThetaVec(n) == Arr([i \in 1..n |-> IF i % 2 = 1 THEN Rat(2, 1) ELSE RNeg(ROne)])

Gradients == {Q(0, 1), Q(1, 1)} \cup {GradVec(n) : n \in 2..MaxDim}

Thetas == {Q(-1, 1), Q(0, 1), Q(2, 1)} \cup {ThetaVec(n) : n \in 2..MaxDim}

Etas == {Q(1, 100), Q(1, 2)}
Momenta == {Q(0, 1), Q(1, 2)}
Lmbdas == {Q(0, 1), Q(1, 2)}
Lps == 0..MaxLp

(***************************************************************************)
(* class GDTemplate                                                        *)
(***************************************************************************)
GDTemplate_init(learning_rate) == [eta |-> learning_rate]

\* Variant: reset switches the learning rate off.
GDTemplate_reset_zero(slf) == [slf EXCEPT !.eta = Q(0, 1)]

GDTemplate_reset(slf) == slf

(***************************************************************************)
(* class PlainGD(GDTemplate)                                               *)
(***************************************************************************)
PlainGD_init(learning_rate, lmbda, lp) ==
    [eta |-> GDTemplate_init(learning_rate).eta, lmbda |-> lmbda, lp |-> lp]

\* Variant: the L2 penalty is added whatever lp is.
PlainGD_update_change_l2always(slf, g, th) ==
    IF slf.lp \in 0..2 THEN
        [self |-> slf, ret |-> Add(Mul(slf.eta, g), Mul(slf.lmbda, th))]
    ELSE
        [self |-> slf, ret |-> Raise("NotImplementedError")]

\* Variant: the L1 penalty uses theta_m1 itself instead of its sign.
PlainGD_update_change_l1raw(slf, g, th) ==
    IF slf.lp = 0 THEN
        [self |-> slf, ret |-> Mul(slf.eta, g)]
    ELSE IF slf.lp \in {1, 2} THEN
        [self |-> slf, ret |-> Add(Mul(slf.eta, g), Mul(slf.lmbda, th))]
    ELSE
        [self |-> slf, ret |-> Raise("NotImplementedError")]

PlainGD_update_change(slf, g, th) ==
    IF slf.lp = 0 THEN
        [self |-> slf, ret |-> Mul(slf.eta, g)]
    ELSE IF slf.lp = 1 THEN
        [self |-> slf, ret |-> Add(Mul(slf.eta, g), Mul(slf.lmbda, sign(th)))]
    ELSE IF slf.lp = 2 THEN
        [self |-> slf, ret |-> Add(Mul(slf.eta, g), Mul(slf.lmbda, th))]
    ELSE
        [self |-> slf, ret |-> Raise("NotImplementedError")]

PlainGD_reset(slf) == GDTemplate_reset(slf)

(***************************************************************************)
(* class MomentumGD(GDTemplate)                                            *)
(***************************************************************************)
MomentumGD_init(learning_rate, momentum, lmbda, lp) ==
    [eta |-> GDTemplate_init(learning_rate).eta, mom |-> momentum,
     lmbda |-> lmbda, lp |-> lp]

\* Variant: the lp = 2 branch drops the momentum term.
MomentumGD_update_change_l2nomom(slf, g, th) ==
    IF slf.lp = 0 THEN
        [self |-> slf, ret |-> Add(Mul(slf.eta, g), Mul(slf.mom, th))]
    ELSE IF slf.lp = 1 THEN
        [self |-> slf,
         ret |-> Add(Add(Mul(slf.eta, g), Mul(slf.mom, th)), Mul(slf.lmbda, sign(th)))]
    ELSE IF slf.lp = 2 THEN
        [self |-> slf, ret |-> Add(Mul(slf.eta, g), Mul(slf.lmbda, th))]
    ELSE
        [self |-> slf, ret |-> Raise("NotImplementedError")]

MomentumGD_update_change(slf, g, th) ==
    IF slf.lp = 0 THEN
        [self |-> slf, ret |-> Add(Mul(slf.eta, g), Mul(slf.mom, th))]
    ELSE IF slf.lp = 1 THEN
        [self |-> slf,
         ret |-> Add(Add(Mul(slf.eta, g), Mul(slf.mom, th)), Mul(slf.lmbda, sign(th)))]
    ELSE IF slf.lp = 2 THEN
        [self |-> slf,
         ret |-> Add(Add(Mul(slf.eta, g), Mul(slf.mom, th)), Mul(slf.lmbda, th))]
    ELSE
        [self |-> slf, ret |-> Raise("NotImplementedError")]

MomentumGD_reset(slf) == GDTemplate_reset(slf)

(***************************************************************************)
(* class Adagrad(GDTemplate)                                               *)
(***************************************************************************)
Adagrad_init(learning_rate, momentum, lmbda, lp) ==
    [eta |-> GDTemplate_init(learning_rate).eta, mom |-> momentum,
     adagrad_learn_rate |-> None, lmbda |-> lmbda, lp |-> lp]

Adagrad_delta == Q(1, 10000000)

\* Variant: a stored adaptive rate is carried forward instead of recomputed.
Adagrad_update_change_carried(slf, g, th) ==
    LET gradient2 == Mul(g, g)
        rate == IF slf.adagrad_learn_rate = None
                THEN Div(slf.eta, Add(Adagrad_delta, sqrt(gradient2)))
                ELSE Mul(slf.adagrad_learn_rate, Q(1, 2))
        slf1 == [slf EXCEPT !.adagrad_learn_rate = rate]
        base == Add(Mul(g, slf1.adagrad_learn_rate), Mul(slf1.mom, th))
    IN  IF IsExc(rate) THEN
            [self |-> slf, ret |-> rate]
        ELSE IF slf1.lp = 0 THEN
            [self |-> slf1, ret |-> base]
        ELSE IF slf1.lp = 1 THEN
            [self |-> slf1, ret |-> Add(base, Mul(slf1.lmbda, sign(th)))]
        ELSE IF slf1.lp = 2 THEN
            [self |-> slf1, ret |-> Add(base, Mul(slf1.lmbda, th))]
        ELSE
            [self |-> slf1, ret |-> Raise("NotImplementedError")]

\* Variant: the adaptive rate is computed without the delta floor.
Adagrad_update_change_nofloor(slf, g, th) ==
    LET gradient2 == Mul(g, g)
        rate == Div(slf.eta, sqrt(gradient2))
        slf1 == [slf EXCEPT !.adagrad_learn_rate = rate]
        base == Add(Mul(g, slf1.adagrad_learn_rate), Mul(slf1.mom, th))
    IN  IF IsExc(rate) THEN
            [self |-> slf, ret |-> rate]
        ELSE IF slf1.lp = 0 THEN
            [self |-> slf1, ret |-> base]
        ELSE IF slf1.lp = 1 THEN
            [self |-> slf1, ret |-> Add(base, Mul(slf1.lmbda, sign(th)))]
        ELSE IF slf1.lp = 2 THEN
            [self |-> slf1, ret |-> Add(base, Mul(slf1.lmbda, th))]
        ELSE
            [self |-> slf1, ret |-> Raise("NotImplementedError")]

\* Variant: the adaptive rate is halved once a rate from an earlier call is stored.
Adagrad_update_change_halved(slf, g, th) ==
    LET gradient2 == Mul(g, g)
        first == Div(slf.eta, Add(Adagrad_delta, sqrt(gradient2)))
        rate == IF slf.adagrad_learn_rate = None THEN first ELSE Mul(first, Q(1, 2))
        slf1 == [slf EXCEPT !.adagrad_learn_rate = rate]
        base == Add(Mul(g, slf1.adagrad_learn_rate), Mul(slf1.mom, th))
    IN  IF IsExc(rate) THEN
            [self |-> slf, ret |-> rate]
        ELSE IF slf1.lp = 0 THEN
            [self |-> slf1, ret |-> base]
        ELSE IF slf1.lp = 1 THEN
            [self |-> slf1, ret |-> Add(base, Mul(slf1.lmbda, sign(th)))]
        ELSE IF slf1.lp = 2 THEN
            [self |-> slf1, ret |-> Add(base, Mul(slf1.lmbda, th))]
        ELSE
            [self |-> slf1, ret |-> Raise("NotImplementedError")]

Adagrad_update_change(slf, g, th) ==
    LET gradient2 == Mul(g, g)
        rate == Div(slf.eta, Add(Adagrad_delta, sqrt(gradient2)))
        slf1 == [slf EXCEPT !.adagrad_learn_rate = rate]
        base == Add(Mul(g, slf1.adagrad_learn_rate), Mul(slf1.mom, th))
    IN  IF IsExc(rate) THEN
            [self |-> slf, ret |-> rate]
        ELSE IF slf1.lp = 0 THEN
            [self |-> slf1, ret |-> base]
        ELSE IF slf1.lp = 1 THEN
            [self |-> slf1, ret |-> Add(base, Mul(slf1.lmbda, sign(th)))]
        ELSE IF slf1.lp = 2 THEN
            [self |-> slf1, ret |-> Add(base, Mul(slf1.lmbda, th))]
        ELSE
            [self |-> slf1, ret |-> Raise("NotImplementedError")]

\* Variant: reset also drops the momentum.
Adagrad_reset_forget(slf) == [slf EXCEPT !.adagrad_learn_rate = None, !.mom = Q(0, 1)]

Adagrad_reset(slf) == [slf EXCEPT !.adagrad_learn_rate = None]

(***************************************************************************)
(* class RMSprop(GDTemplate)                                               *)
(***************************************************************************)
RMSprop_init(learning_rate, decay, lmbda) ==
    [eta |-> GDTemplate_init(learning_rate).eta, rmsProp_update |-> Q(0, 1),
     decay |-> decay, lmbda |-> lmbda]

RMSprop_delta == Q(1, 100000000)

\* Variant: the returned update is computed with the moving average of the
\* call before.
RMSprop_update_change_stale(slf, g, th) ==
    LET upd == Add(Mul(slf.decay, slf.rmsProp_update),
                   Mul(Mul(Sub(Q(1, 1), slf.decay), g), g))
        slf1 == [slf EXCEPT !.rmsProp_update = upd]
        out == Add(Mul(Div(slf.eta, sqrt(Add(slf.rmsProp_update, RMSprop_delta))), g),
                   Mul(slf.lmbda, th))
    IN  IF IsExc(upd) THEN [self |-> slf, ret |-> upd]
        ELSE [self |-> slf1, ret |-> out]

RMSprop_update_change(slf, g, th) ==
    LET upd == Add(Mul(slf.decay, slf.rmsProp_update),
                   Mul(Mul(Sub(Q(1, 1), slf.decay), g), g))
        slf1 == [slf EXCEPT !.rmsProp_update = upd]
        out == Add(Mul(Div(slf1.eta, sqrt(Add(slf1.rmsProp_update, RMSprop_delta))), g),
                   Mul(slf1.lmbda, th))
    IN  IF IsExc(upd) THEN [self |-> slf, ret |-> upd]
        ELSE [self |-> slf1, ret |-> out]

\* Variant: reset keeps the moving average.
RMSprop_reset_keep(slf) == slf

RMSprop_reset(slf) == [slf EXCEPT !.rmsProp_update = Q(0, 1)]

(***************************************************************************)
(* class ADAM(GDTemplate)                                                  *)
(***************************************************************************)
ADAM_init(learning_rate, decay_rates, lmbda) ==
    [eta |-> GDTemplate_init(learning_rate).eta, decay1 |-> decay_rates[1],
     decay2 |-> decay_rates[2], lmbda |-> lmbda,
     s |-> Q(0, 1), r |-> Q(0, 1), t |-> 1]

ADAM_delta == Q(1, 100000000)

\* Variant: the second moment is used without bias correction.
ADAM_update_change_rawr(slf, g, th) ==
    LET s1 == Add(Mul(slf.decay1, slf.s), Mul(Sub(Q(1, 1), slf.decay1), g))
        slf1 == [slf EXCEPT !.s = s1]
        r1 == Add(Mul(slf1.decay2, slf1.r), Mul(Mul(Sub(Q(1, 1), slf1.decay2), g), g))
        slf2 == [slf1 EXCEPT !.r = r1]
        s_corr == Div(slf2.s, Sub(Q(1, 1), Pow(slf2.decay1, slf2.t)))
        out == Add(Mul(slf2.eta, Div(s_corr, Add(sqrt(slf2.r), ADAM_delta))),
                   Mul(slf2.lmbda, th))
    IN  IF IsExc(s1) THEN [self |-> slf, ret |-> s1]
        ELSE IF IsExc(r1) THEN [self |-> slf1, ret |-> r1]
        ELSE [self |-> slf2, ret |-> out]

\* Variant: every update_change advances the step counter.
ADAM_update_change_step(slf, g, th) ==
    LET s1 == Add(Mul(slf.decay1, slf.s), Mul(Sub(Q(1, 1), slf.decay1), g))
        slf1 == [slf EXCEPT !.s = s1]
        r1 == Add(Mul(slf1.decay2, slf1.r), Mul(Mul(Sub(Q(1, 1), slf1.decay2), g), g))
        slf2 == [slf1 EXCEPT !.r = r1]
        s_corr == Div(slf2.s, Sub(Q(1, 1), Pow(slf2.decay1, slf2.t)))
        r_corr == Div(slf2.r, Sub(Q(1, 1), Pow(slf2.decay2, slf2.t)))
        out == Add(Mul(slf2.eta, Div(s_corr, Add(sqrt(r_corr), ADAM_delta))),
                   Mul(slf2.lmbda, th))
    IN  IF IsExc(s1) THEN [self |-> slf, ret |-> s1]
        ELSE IF IsExc(r1) THEN [self |-> slf1, ret |-> r1]
        ELSE [self |-> [slf2 EXCEPT !.t = slf2.t + 1], ret |-> out]

ADAM_update_change(slf, g, th) ==
    LET s1 == Add(Mul(slf.decay1, slf.s), Mul(Sub(Q(1, 1), slf.decay1), g))
        slf1 == [slf EXCEPT !.s = s1]
        r1 == Add(Mul(slf1.decay2, slf1.r), Mul(Mul(Sub(Q(1, 1), slf1.decay2), g), g))
        slf2 == [slf1 EXCEPT !.r = r1]
        s_corr == Div(slf2.s, Sub(Q(1, 1), Pow(slf2.decay1, slf2.t)))
        r_corr == Div(slf2.r, Sub(Q(1, 1), Pow(slf2.decay2, slf2.t)))
        out == Add(Mul(slf2.eta, Div(s_corr, Add(sqrt(r_corr), ADAM_delta))),
                   Mul(slf2.lmbda, th))
    IN  IF IsExc(s1) THEN [self |-> slf, ret |-> s1]
        ELSE IF IsExc(r1) THEN [self |-> slf1, ret |-> r1]
        ELSE [self |-> slf2, ret |-> out]

\* Variant: reset restarts the step counter.
ADAM_reset_restart(slf) == [slf EXCEPT !.s = Q(0, 1), !.r = Q(0, 1), !.t = 1]

\* Variant: reset advances the step counter and keeps the moments.
ADAM_reset_keep(slf) == [slf EXCEPT !.t = slf.t + 1]

ADAM_reset(slf) == [slf EXCEPT !.s = Q(0, 1), !.r = Q(0, 1), !.t = slf.t + 1]

(***************************************************************************)
(* The instance and the calls made on it.                                  *)
(***************************************************************************)
Classes == {"PlainGD", "MomentumGD", "Adagrad", "RMSprop", "ADAM"}

Construct(c, obj) ==
    /\ cls = c
    /\ self = obj
    /\ op = "__init__"
    /\ gradient = None
    /\ theta_m1 = None
    /\ ret = None
    /\ calls = 0

Init ==
    \/ \E e \in Etas, l \in Lmbdas, p \in Lps :
          Construct("PlainGD", PlainGD_init(e, l, p))
    \/ \E m \in Momenta, l \in Lmbdas, p \in Lps :
          Construct("MomentumGD", MomentumGD_init(Q(1, 100), m, l, p))
    \/ \E m \in Momenta, l \in Lmbdas, p \in Lps :
          Construct("Adagrad", Adagrad_init(Q(1, 100), m, l, p))
    \/ \E d \in {Q(1, 2), Q(9, 10)}, l \in Lmbdas :
          Construct("RMSprop", RMSprop_init(Q(1, 100), d, l))
    \/ \E l \in Lmbdas :
          Construct("ADAM", ADAM_init(Q(1, 10), <<Q(1, 2), Q(1, 2)>>, l))

Update(c, res, g, th) ==
    /\ cls = c
    /\ calls < MaxCalls
    /\ self' = res.self
    /\ ret' = res.ret
    /\ op' = "update_change"
    /\ gradient' = g
    /\ theta_m1' = th
    /\ calls' = calls + 1
    /\ UNCHANGED cls

Reset(c, obj) ==
    /\ cls = c
    /\ calls < MaxCalls
    /\ self' = obj
    /\ ret' = None
    /\ op' = "reset"
    /\ gradient' = None
    /\ theta_m1' = None
    /\ calls' = calls + 1
    /\ UNCHANGED cls

\* PlainGD.update_change(gradient, theta_m1=None): theta_m1 may be left out.
Call_PlainGD_update_change ==
    \E g \in Gradients, th \in Thetas \cup {None} :
        Update("PlainGD", PlainGD_update_change(self, g, th), g, th)

Call_MomentumGD_update_change ==
    \E g \in Gradients, th \in Thetas :
        Update("MomentumGD", MomentumGD_update_change(self, g, th), g, th)

Call_Adagrad_update_change ==
    \E g \in Gradients, th \in Thetas :
        Update("Adagrad", Adagrad_update_change(self, g, th), g, th)

Call_RMSprop_update_change ==
    \E g \in Gradients, th \in Thetas :
        Update("RMSprop", RMSprop_update_change(self, g, th), g, th)

Call_ADAM_update_change ==
    \E g \in Gradients, th \in Thetas :
        Update("ADAM", ADAM_update_change(self, g, th), g, th)

Call_PlainGD_reset == Reset("PlainGD", PlainGD_reset(self))
Call_MomentumGD_reset == Reset("MomentumGD", MomentumGD_reset(self))
Call_Adagrad_reset == Reset("Adagrad", Adagrad_reset(self))
Call_RMSprop_reset == Reset("RMSprop", RMSprop_reset(self))
Call_ADAM_reset == Reset("ADAM", ADAM_reset(self))

Next ==
    \/ Call_PlainGD_update_change
    \/ Call_MomentumGD_update_change
    \/ Call_Adagrad_update_change
    \/ Call_RMSprop_update_change
    \/ Call_ADAM_update_change
    \/ Call_PlainGD_reset
    \/ Call_MomentumGD_reset
    \/ Call_Adagrad_reset
    \/ Call_RMSprop_reset
    \/ Call_ADAM_reset

Spec == Init /\ [][Next]_vars

(***************************************************************************)
(* A training run without restart: one ADAM instance with the default      *)
(* decay rates, driven by update_change only.                              *)
(***************************************************************************)
InitRun == Construct("ADAM", ADAM_init(Q(1, 100), <<Q(9, 10), Q(99, 100)>>, Q(0, 1)))

NextRun == Call_ADAM_update_change

SpecRun == InitRun /\ [][NextRun]_vars

(***************************************************************************)
(* Properties.                                                             *)
(***************************************************************************)
HasLp(slf) == "lp" \in DOMAIN slf

\* equality of two arrays up to broadcasting
BEq(a, b) ==
    /\ IsArr(a)
    /\ IsArr(b)
    /\ Shape(a) = Shape(b) \/ Shape(a) = 1 \/ Shape(b) = 1
    /\ \A i \in 1..Shape(a), j \in 1..Shape(b) :
          (i = j \/ Shape(a) = 1 \/ Shape(b) = 1) => a.v[i] = b.v[j]

\* the penalty of spec section 4.1
regularization_term(lp, lmbda, previous_update) ==
    IF lp = 1 THEN Mul(lmbda, sign(previous_update))
    ELSE IF lp = 2 THEN Mul(lmbda, previous_update)
    ELSE Q(0, 1)

\* C1: on PlainGD, MomentumGD and Adagrad an update_change call with lp > 2
\* raises the unsupported-order error and leaves every attribute of the
\* instance as it was before the call.
C1_UnsupportedLpMutatesNothing ==
    [][(op' = "update_change" /\ HasLp(self) /\ self.lp > 2)
        => (ret'.tag = "NotImplementedError" /\ self' = self)]_vars

\* C2: on every variant an update_change call whose gradient and theta_m1
\* have different shapes ends in the shape error and leaves every attribute
\* of the instance (RMSprop's moving average, ADAM's moments) unchanged.
C2_ShapeMismatchMutatesNothing ==
    [][(op' = "update_change" /\ IsArr(theta_m1') /\ Shape(gradient') # Shape(theta_m1'))
        => (ret'.tag = "ValueError" /\ self' = self)]_vars

\* C3: ADAM.reset sets s and r to 0 and increments t by exactly 1; t is
\* never 1 after a reset.
C3_AdamResetIncrementsT ==
    [][(cls = "ADAM" /\ op' = "reset")
        => (/\ self'.s = Q(0, 1)
            /\ self'.r = Q(0, 1)
            /\ self'.t = self.t + 1
            /\ self'.t # 1)]_vars

C3_Witness == cls = "ADAM" /\ op = "reset" /\ self.t = 3 /\ calls = 3

\* C4: on RMSprop and ADAM, an update_change with a zero gradient that
\* directly follows a reset returns what a freshly constructed instance with
\* the same hyperparameters returns for the same arguments, whatever calls
\* came before the reset.
FreshCall(c, slf, g, th) ==
    IF c = "RMSprop"
    THEN RMSprop_update_change(RMSprop_init(slf.eta, slf.decay, slf.lmbda), g, th)
    ELSE ADAM_update_change(ADAM_init(slf.eta, <<slf.decay1, slf.decay2>>, slf.lmbda), g, th)

C4_ResetThenZeroGradientAsFresh ==
    [][(cls \in {"RMSprop", "ADAM"} /\ op = "reset" /\ op' = "update_change"
            /\ gradient' = Q(0, 1))
        => (/\ ret' = FreshCall(cls, self, gradient', theta_m1').ret
            /\ ret' = Mul(self.lmbda, theta_m1')
            /\ cls = "RMSprop" => self' = FreshCall(cls, self, gradient', theta_m1').self
            /\ cls = "ADAM" =>
                  [self' EXCEPT !.t = 1] = FreshCall(cls, self, gradient', theta_m1').self)]_vars

C4_Witness ==
    /\ cls = "ADAM"
    /\ op = "update_change"
    /\ calls = 3
    /\ self.t = 3
    /\ gradient = Q(0, 1)
    /\ self.lmbda # Q(0, 1)
    /\ Shape(theta_m1) > 1
    /\ IsArr(ret)

\* C5: ADAM with eta = 0.01, decay_rates = (0.9, 0.99), lambda = 0, fed the
\* gradient 1.0 in 3 consecutive update_change calls from the zero state:
\* each call sets s = decay1*s + (1-decay1)*g and r = decay2*r + (1-decay2)*g*g,
\* returns eta * s_hat / (sqrt(r_hat) + eps) with s_hat = s/(1 - decay1^t),
\* r_hat = r/(1 - decay2^t) of the instance's s, r, t after the call, and
\* returns strictly more than the call before it.
RECURSIVE UnitRun(_)
UnitRun(k) ==
    IF k = 0 THEN ADAM_init(Q(1, 100), <<Q(9, 10), Q(99, 100)>>, Q(0, 1))
    ELSE ADAM_update_change(UnitRun(k - 1), Q(1, 1), Q(0, 1)).self

AdamClosedForm(slf) ==
    LET s_hat == Div(slf.s, Sub(Q(1, 1), Pow(slf.decay1, slf.t)))
        r_hat == Div(slf.r, Sub(Q(1, 1), Pow(slf.decay2, slf.t)))
    IN  Div(Mul(slf.eta, s_hat), Add(sqrt(r_hat), Q(1, 100000000)))

C5_AdamUnitGradientRun ==
    [][(\E k \in 0..2 : calls = k /\ self = UnitRun(k) /\ (k > 0 => gradient = Q(1, 1))
            /\ op' = "update_change" /\ gradient' = Q(1, 1))
        => (/\ self'.s = Add(Mul(self.decay1, self.s), Mul(Sub(Q(1, 1), self.decay1), gradient'))
            /\ self'.r = Add(Mul(self.decay2, self.r),
                             Mul(Sub(Q(1, 1), self.decay2), Mul(gradient', gradient')))
            /\ BEq(ret', AdamClosedForm(self'))
            /\ (calls > 0 =>
                  \A i \in 1..Shape(ret), j \in 1..Shape(ret') : RLess(ret.v[i], ret'.v[j])))]_vars

C5_Witness ==
    /\ cls = "ADAM"
    /\ calls = 3
    /\ self = UnitRun(3)
    /\ gradient = Q(1, 1)
    /\ ret = Q(2710000, 172330001)

\* C6: PlainGD with lp = 0 returns exactly eta * gradient, whatever theta_m1
\* (absent included) and whatever lmbda.
C6_PlainGDLp0 ==
    (cls = "PlainGD" /\ op = "update_change" /\ self.lp = 0)
        => ret = Mul(self.eta, gradient)

C6_Witness ==
    /\ cls = "PlainGD"
    /\ op = "update_change"
    /\ self.lp = 0
    /\ self.lmbda # Q(0, 1)
    /\ theta_m1 = None
    /\ gradient = GradVec(2)

\* C7: for PlainGD with lp = 2, the returned update minus the update the same
\* instance with lp = 1 returns for the same arguments is
\* lmbda * (theta_m1 - sign(theta_m1)); where theta_m1 is not 0 the two
\* updates are equal only if theta_m1 is +1 or -1 or lmbda is 0.
Lp1Return == PlainGD_update_change([self EXCEPT !.lp = 1], gradient, theta_m1).ret

C7_PlainGDLp2MinusLp1 ==
    (cls = "PlainGD" /\ op = "update_change" /\ self.lp = 2 /\ IsArr(ret))
        => (/\ BEq(Sub(ret, Lp1Return), Mul(self.lmbda, Sub(theta_m1, sign(theta_m1))))
            /\ \A i \in 1..Shape(ret) :
                  (At(theta_m1, i) # RZero /\ ret.v[i] = Lp1Return.v[i])
                      => (At(theta_m1, i) \in {ROne, RNeg(ROne)} \/ self.lmbda = Q(0, 1)))

C7_Witness ==
    /\ cls = "PlainGD"
    /\ op = "update_change"
    /\ self.lp = 2
    /\ self.lmbda # Q(0, 1)
    /\ theta_m1 = Q(2, 1)
    /\ IsArr(ret)
    /\ ret # Lp1Return

\* C8: PlainGD, MomentumGD and Adagrad with lp in {0,1,2} return their base
\* update plus the same penalty: nothing (lp = 0), lmbda*sign(theta_m1)
\* (lp = 1), lmbda*theta_m1 (lp = 2).
BaseUpdate(c, slf, g, th) ==
    IF c = "PlainGD" THEN Mul(slf.eta, g)
    ELSE IF c = "MomentumGD" THEN Add(Mul(slf.eta, g), Mul(slf.mom, th))
    ELSE Add(Div(Mul(g, slf.eta), Add(Q(1, 10000000), sqrt(Mul(g, g)))), Mul(slf.mom, th))

C8_UniformRegularization ==
    (cls \in {"PlainGD", "MomentumGD", "Adagrad"} /\ op = "update_change"
        /\ self.lp \in 0..2 /\ IsArr(theta_m1))
        => IF self.lp = 0
           THEN ret = BaseUpdate(cls, self, gradient, theta_m1)
           ELSE ret = Add(BaseUpdate(cls, self, gradient, theta_m1),
                          regularization_term(self.lp, self.lmbda, theta_m1))

C8_Witness ==
    /\ cls = "Adagrad"
    /\ op = "update_change"
    /\ self.lp = 1
    /\ self.lmbda # Q(0, 1)
    /\ self.mom # Q(0, 1)
    /\ theta_m1 = Q(2, 1)
    /\ gradient = GradVec(2)
    /\ IsArr(ret)

\* C9: RMSprop starts with rmsProp_update = 0 (at construction and after
\* reset); each update_change first sets rmsProp_update to
\* decay*rmsProp_update + (1-decay)*gradient*gradient and then returns
\* eta/sqrt(rmsProp_update + 1e-8)*gradient + lmbda*theta_m1 with the new
\* value; the instance has no lp attribute that could change the penalty.
RMSpropMovingAverage(slf, g) ==
    Add(Mul(slf.decay, slf.rmsProp_update), Mul(Sub(Q(1, 1), slf.decay), Mul(g, g)))

C9_RMSpropUpdate ==
    [][cls = "RMSprop" =>
        (/\ ~HasLp(self) /\ ~HasLp(self')
         /\ op = "__init__" => self.rmsProp_update = Q(0, 1)
         /\ op' = "reset" => self'.rmsProp_update = Q(0, 1)
         /\ (op' = "update_change" /\ IsArr(RMSpropMovingAverage(self, gradient')))
               => (/\ self'.rmsProp_update = RMSpropMovingAverage(self, gradient')
                   /\ ret' = Add(Mul(Div(self.eta,
                                         sqrt(Add(self'.rmsProp_update, Q(1, 100000000)))),
                                     gradient'),
                                 Mul(self.lmbda, theta_m1'))))]_vars

C9_Witness ==
    /\ cls = "RMSprop"
    /\ op = "update_change"
    /\ calls = 2
    /\ self.rmsProp_update = Q(19, 100)
    /\ self.lmbda # Q(0, 1)
    /\ theta_m1 = Q(2, 1)
    /\ IsArr(ret)

\* C10: the value Adagrad.update_change returns depends only on its two
\* arguments and the hyperparameters: after any calls it is what a freshly
\* constructed instance with the same hyperparameters returns; reset changes
\* nothing but the stored adagrad_learn_rate, which it clears.
C10_AdagradMemoryless ==
    [][cls = "Adagrad" =>
        (/\ op' = "update_change" =>
               ret' = Adagrad_update_change(
                          Adagrad_init(self.eta, self.mom, self.lmbda, self.lp),
                          gradient', theta_m1').ret
         /\ op' = "reset" =>
               (/\ self' = [self EXCEPT !.adagrad_learn_rate = None]
                /\ self'.adagrad_learn_rate = None))]_vars

C10_Witness ==
    /\ cls = "Adagrad"
    /\ op = "update_change"
    /\ calls = 3
    /\ self.lp = 2
    /\ gradient = Q(1, 1)
    /\ IsArr(ret)

\* C11: Adagrad.update_change never divides by zero: every entry of the
\* adaptive rate and of the returned update is a number (non-zero
\* denominator); where the gradient is exactly 0 the rate is eta / 1e-7, and
\* for a zero gradient the return is mom*theta_m1 plus the penalty.
Finite(x) == IsArr(x) /\ \A i \in 1..Shape(x) : x.v[i].d > 0

C11_AdagradNoDivisionByZero ==
    (cls = "Adagrad" /\ op = "update_change")
        => (/\ Finite(self.adagrad_learn_rate)
            /\ Shape(self.adagrad_learn_rate) = Shape(gradient)
            /\ \A i \in 1..Shape(gradient) :
                  gradient.v[i] = RZero
                      => Num(self.adagrad_learn_rate.v[i]) = Div(self.eta, Q(1, 10000000))
            /\ IsArr(ret) => Finite(ret)
            /\ (gradient = Q(0, 1) /\ self.lp \in 0..2)
                  => ret = Add(Mul(self.mom, theta_m1),
                               regularization_term(self.lp, self.lmbda, theta_m1)))

C11_Witness ==
    /\ cls = "Adagrad"
    /\ op = "update_change"
    /\ gradient = Q(0, 1)
    /\ theta_m1 = Q(2, 1)
    /\ self.lp = 1
    /\ self.mom # Q(0, 1)
    /\ self.lmbda # Q(0, 1)
    /\ ret = Q(3, 2)

\* The call update_change(g, th) on a separate, freshly constructed instance
\* of class c with the hyperparameters of slf.
SeparateInstance(c, slf, g, th) ==
    IF c = "PlainGD" THEN
        PlainGD_update_change(PlainGD_init(slf.eta, slf.lmbda, slf.lp), g, th)
    ELSE IF c = "MomentumGD" THEN
        MomentumGD_update_change(MomentumGD_init(slf.eta, slf.mom, slf.lmbda, slf.lp), g, th)
    ELSE IF c = "Adagrad" THEN
        Adagrad_update_change(Adagrad_init(slf.eta, slf.mom, slf.lmbda, slf.lp), g, th)
    ELSE FreshCall(c, slf, g, th)

\* C12 as stated: one instance shared by the parameter groups gives each
\* group the updates of its own instance, for every class: the second
\* update_change after construction (the second group's first update)
\* returns what a separate new instance returns for the same arguments.
C12_SharedInstanceAsSeparate ==
    [][(calls = 1 /\ op = "update_change" /\ op' = "update_change")
        => ret' = SeparateInstance(cls, self, gradient', theta_m1').ret]_vars

\* C12: on PlainGD, MomentumGD and Adagrad every update_change of an
\* instance shared by the parameter groups returns what a separate instance
\* with the same hyperparameters returns for the same arguments; on RMSprop
\* and ADAM this holds for the first call after construction only, since
\* later calls read the accumulators the earlier calls left.
C12_SharedInstanceStatelessOnly ==
    [][op' = "update_change" =>
        (/\ cls \in {"PlainGD", "MomentumGD", "Adagrad"}
               => ret' = SeparateInstance(cls, self, gradient', theta_m1').ret
         /\ (cls \in {"RMSprop", "ADAM"} /\ op = "__init__")
               => (/\ ret' = SeparateInstance(cls, self, gradient', theta_m1').ret
                   /\ self' = SeparateInstance(cls, self, gradient', theta_m1').self))]_vars

C12_Witness ==
    /\ cls = "Adagrad"
    /\ op = "update_change"
    /\ calls = 2
    /\ self.lp = 0
    /\ gradient = GradVec(3)
    /\ theta_m1 = ThetaVec(3)
    /\ IsArr(ret)

\* One step of ADAM's moment recurrences.
AdamFirstMoment(slf, g) ==
    Add(Mul(slf.decay1, slf.s), Mul(Sub(Q(1, 1), slf.decay1), g))

AdamSecondMoment(slf, g) ==
    Add(Mul(slf.decay2, slf.r), Mul(Sub(Q(1, 1), slf.decay2), Mul(g, g)))

\* C13 as stated: every piece of mutable state, ADAM's step counter
\* included, is advanced exactly once by each update_change that returns,
\* and reset puts every piece back to its value at construction.
C13_EveryPieceMutatedOnceAndCleared ==
    [][/\ (cls = "RMSprop" /\ op' = "update_change" /\ IsArr(ret'))
              => self' = [self EXCEPT !.rmsProp_update = RMSpropMovingAverage(self, gradient')]
       /\ (cls = "ADAM" /\ op' = "update_change" /\ IsArr(ret'))
              => self' = [self EXCEPT !.s = AdamFirstMoment(self, gradient'),
                                      !.r = AdamSecondMoment(self, gradient'),
                                      !.t = self.t + 1]
       /\ (cls = "RMSprop" /\ op' = "reset")
              => self' = RMSprop_init(self.eta, self.decay, self.lmbda)
       /\ (cls = "ADAM" /\ op' = "reset")
              => self' = ADAM_init(self.eta, <<self.decay1, self.decay2>>, self.lmbda)]_vars

\* C13: each update_change assigns every accumulator at most once:
\* RMSprop's rmsProp_update, ADAM's s and r take one step of their recurrence
\* when that step can be computed and are otherwise left alone, Adagrad's
\* adagrad_learn_rate is replaced, and nothing else changes; in particular
\* ADAM's t is not changed by update_change.  reset sets rmsProp_update, s
\* and r to 0 and adagrad_learn_rate to None, and increments ADAM's t
\* instead of clearing it.  PlainGD and MomentumGD have nothing to mutate.
C13_AccumulatorsOncePerUpdate ==
    [][/\ (cls \in {"PlainGD", "MomentumGD"}) => self' = self
       /\ (cls = "Adagrad" /\ op' = "update_change")
              => self' = [self EXCEPT !.adagrad_learn_rate =
                             Div(self.eta, Add(Q(1, 10000000), sqrt(Mul(gradient', gradient'))))]
       /\ (cls = "Adagrad" /\ op' = "reset")
              => self' = [self EXCEPT !.adagrad_learn_rate = None]
       /\ (cls = "RMSprop" /\ op' = "update_change")
              => self' = IF IsArr(RMSpropMovingAverage(self, gradient'))
                         THEN [self EXCEPT !.rmsProp_update =
                                  RMSpropMovingAverage(self, gradient')]
                         ELSE self
       /\ (cls = "RMSprop" /\ op' = "reset")
              => self' = [self EXCEPT !.rmsProp_update = Q(0, 1)]
       /\ (cls = "ADAM" /\ op' = "update_change")
              => self' = IF IsArr(AdamFirstMoment(self, gradient'))
                         THEN [self EXCEPT !.s = AdamFirstMoment(self, gradient'),
                                           !.r = AdamSecondMoment(self, gradient')]
                         ELSE self
       /\ (cls = "ADAM" /\ op' = "reset")
              => self' = [self EXCEPT !.s = Q(0, 1), !.r = Q(0, 1), !.t = self.t + 1]]_vars

C13_Witness ==
    /\ cls = "ADAM"
    /\ op = "update_change"
    /\ calls = 3
    /\ self.t = 2
    /\ Shape(self.s) = 2
    /\ self.s # Q(0, 1)
    /\ IsArr(ret)

\* The attributes of a class that hold its hyperparameters.
Hyperparameters(c) ==
    IF c = "PlainGD" THEN {"eta", "lmbda", "lp"}
    ELSE IF c \in {"MomentumGD", "Adagrad"} THEN {"eta", "mom", "lmbda", "lp"}
    ELSE IF c = "RMSprop" THEN {"eta", "decay", "lmbda"}
    ELSE {"eta", "decay1", "decay2", "lmbda"}

\* C14: no update_change and no reset of any of the five classes, failing
\* calls included, changes a hyperparameter (eta, mom, decay, decay1,
\* decay2, lmbda, lp) or adds or removes an attribute.
C14_HyperparametersImmutable ==
    [][/\ cls' = cls
       /\ DOMAIN self' = DOMAIN self
       /\ Hyperparameters(cls) \subseteq DOMAIN self
       /\ \A h \in Hyperparameters(cls) : self'[h] = self[h]]_vars

C14_Witness ==
    /\ cls = "ADAM"
    /\ op = "update_change"
    /\ calls = 3
    /\ self.t = 2
    /\ ret.tag = "ValueError"
    /\ self.eta = Q(1, 10)
    /\ self.lmbda = Q(1, 2)

\* C15: PlainGD and MomentumGD hold nothing but hyperparameters: no call
\* changes the instance, reset included, and after any calls update_change
\* returns what the instance as constructed returns for the same arguments.
C15_PlainAndMomentumStateless ==
    [][(cls = "PlainGD" \/ cls = "MomentumGD") =>
        (/\ DOMAIN self = Hyperparameters(cls)
         /\ self' = self
         /\ op' = "reset" => ret' = None
         /\ op' = "update_change" =>
               ret' = (IF cls = "PlainGD"
                       THEN PlainGD_update_change(self, gradient', theta_m1')
                       ELSE MomentumGD_update_change(self, gradient', theta_m1')).ret)]_vars

C15_Witness ==
    /\ cls = "MomentumGD"
    /\ op = "update_change"
    /\ calls = 3
    /\ self.lp = 1
    /\ self.mom # Q(0, 1)
    /\ gradient = Q(1, 1)
    /\ theta_m1 = ThetaVec(2)
    /\ IsArr(ret)

\* C16: ADAM's t is 1 at construction, unchanged by update_change and
\* raised by 1 by reset, so it is at least 1 and at most 1 + the number of
\* calls; 1 - decay1^t and 1 - decay2^t are strictly positive; while no
\* reset has happened (t = 1) every update_change is bias-corrected with
\* exponent 1, however many calls came before.
BiasDenominator(decay, t) == Sub(Q(1, 1), Pow(decay, t)).v[1]

C16_AdamStepCounter ==
    [][cls = "ADAM" =>
        (/\ op = "__init__" => self.t = 1
         /\ op' = "update_change" => self'.t = self.t
         /\ op' = "reset" => self'.t = self.t + 1
         /\ self.t >= 1 /\ self'.t >= 1 /\ self'.t <= calls' + 1
         /\ RLess(RZero, BiasDenominator(self'.decay1, self'.t))
         /\ RLess(RZero, BiasDenominator(self'.decay2, self'.t))
         /\ (op' = "update_change" /\ self.t = 1 /\ IsArr(ret'))
               => ret' = Add(Mul(self.eta,
                                 Div(Div(self'.s, Sub(Q(1, 1), self.decay1)),
                                     Add(sqrt(Div(self'.r, Sub(Q(1, 1), self.decay2))),
                                         Q(1, 100000000)))),
                             Mul(self.lmbda, theta_m1')))]_vars

C16_Witness ==
    /\ cls = "ADAM"
    /\ op = "update_change"
    /\ calls = 3
    /\ self.t = 1
    /\ self.decay1 = Q(1, 2)
    /\ gradient = Q(1, 1)
    /\ self.s = Q(7, 8)
    /\ IsArr(ret)

====
